---- MODULE Spec2Model ----
(***************************************************************************)
(* retry-request: one logical request carried out through several physical *)
(* attempts.  The model follows src/index.js: retryRequest(requestOpts,    *)
(* opts, callback) in its two call shapes (callback mode, stream mode),    *)
(* the attempt counter numAttempts, the retry timers armed with            *)
(* setTimeout(makeRequest, getNextRetryDelay(numAttempts)), and what the   *)
(* caller observes: the invocations of callback, and the events of         *)
(* retryStream.                                                            *)
(*                                                                         *)
(* The injected transport opts.request is the environment.  In callback    *)
(* mode it answers each attempt once, with an error or with a response.    *)
(* In stream mode every request stream emits at most one `response`,       *)
(* after it `data` chunks and at most one `complete`, and at most one      *)
(* `error`, after which it is silent.  A stream the library has aborted    *)
(* and destroyed delivers no more body, but it may still emit `complete`   *)
(* or `error`: index.js leaves its listeners attached.  A request stream   *)
(* may write body before it emits `response`.                              *)
(*                                                                         *)
(* streamForward(src).pipe(dst) re-emits on dst the events src emits,      *)
(* after src's own listeners have run; StreamCache keeps what is written   *)
(* to it and replays it to a stream it is piped into.  A chunk written to   *)
(* retryStream after retryStream.end() is not delivered.                   *)
(***************************************************************************)
EXTENDS Integers, Sequences, FiniteSets, TLC

\* ------------------------------------------------------------------ bounds
MaxRetries == 2
MaxChunks == 1
\* Responses a request stream emits beyond its first, in one run.
MaxDuplicates == 1

\* Status codes the transport answers with.
StatusCodes == {100, 200, 399, 404, 429, 503}
\* Status codes a request stream answers with: one the default predicate
\* accepts and one it rejects.
StreamStatusCodes == {200, 404}
\* Values of Math.floor(Math.random() * 1000).
Jitters == {0, 999}

\* ------------------------------------------------------- program constants
DEFAULTS_retries == 2
MAX_NO_RESPONSE_RETRIES == 2

VARIABLES
  streamMode,     \* the last argument of retryRequest is not a function
  given,          \* opts as the caller passed it
  opts,           \* opts after the defaults are filled in
  numAttempts,
  timers,         \* the delays of the armed setTimeout(makeRequest, delay)
                  \* that have not fired
  delays,         \* the retryNumber of every timer armed so far
  attempts,       \* one record per call of opts.request
  requestStream,  \* index into attempts, 0 while undefined
  cacheStream,    \* index into attempts, 0 while null or undefined
  events,         \* what retryStream has emitted or relayed, in order
  ended,          \* retryStream.end() was called
  calls,          \* the invocations of callback, in order
  evals,          \* number of calls of opts.shouldRetryFn
  threw,          \* a handler threw (streamForward(null))
  aborted         \* the caller has called abort() on what retryRequest returned

vars == <<streamMode, given, opts, numAttempts, timers, delays, attempts,
          requestStream, cacheStream, events, ended, calls, evals, threw,
          aborted>>

\* ---------------------------------------------------------------- options
\* Values given for retryDelayMultiplier, a field index.js never reads.
Multipliers == {3}

\* Values given for maxRetryDelay and totalTimeout (seconds) and for
\* currentRetryAttempt, fields index.js never reads.
MaxRetryDelays == {1}
TotalTimeouts == {1}
CurrentRetryAttempts == {1}

\* An opts argument without any field.
NoOpts ==
  [retries |-> {}, shouldRetryFn |-> "undefined", undefinedKeys |-> {},
   retryDelayMultiplier |-> {}, maxRetryDelay |-> {}, totalTimeout |-> {},
   currentRetryAttempt |-> {}, retryOnError |-> {}]

\* The opts argument.  retries: {} when no number is given, else {n};
\* shouldRetryFn: "undefined" when no function is given; undefinedKeys: the
\* keys written out with the value undefined (the others without a value
\* are absent); every other field: {} when absent, else {value}.
GivenOpts ==
  {[NoOpts EXCEPT !.retries = r, !.shouldRetryFn = f] :
     r \in {{}} \cup {{n} : n \in 0..MaxRetries},
     f \in {"undefined", "always", "never"}}
  \cup
  {[NoOpts EXCEPT !.undefinedKeys = u] :
     u \in {{"noResponseRetries"},
            {"retries", "shouldRetryFn", "noResponseRetries"}}}
  \cup {[NoOpts EXCEPT !.retryDelayMultiplier = {m}] : m \in Multipliers}
  \cup {[NoOpts EXCEPT !.maxRetryDelay = {m}] : m \in MaxRetryDelays}
  \cup {[NoOpts EXCEPT !.totalTimeout = {t}] : t \in TotalTimeouts}
  \cup {[NoOpts EXCEPT !.currentRetryAttempt = {c}] : c \in CurrentRetryAttempts}
  \cup {[NoOpts EXCEPT !.retryOnError = {b}] : b \in BOOLEAN}

\* Mutant of DEFAULTS_shouldRetryFn: only 1xx, 429 and 5xx are flagged.
DEFAULTS_shouldRetryFn_ranges(statusCode) ==
  \/ statusCode >= 100 /\ statusCode <= 199
  \/ statusCode = 429
  \/ statusCode >= 500 /\ statusCode <= 599

\* DEFAULTS.shouldRetryFn: not a successful status or redirect.
DEFAULTS_shouldRetryFn(statusCode) ==
  statusCode < 200 \/ statusCode >= 400

\* opts = opts || DEFAULTS, then each field that has not the right type
\* takes its default.
resolveOpts(g) ==
  [retries |-> IF g.retries = {} THEN DEFAULTS_retries
               ELSE CHOOSE n \in g.retries : TRUE,
   shouldRetryFn |-> IF g.shouldRetryFn = "undefined" THEN "default"
                     ELSE g.shouldRetryFn]

shouldRetryFn(o, response) ==
  CASE o.shouldRetryFn = "default" -> DEFAULTS_shouldRetryFn(response.statusCode)
    [] o.shouldRetryFn = "always" -> TRUE
    [] OTHER -> FALSE

\* ------------------------------------------------------------------ values
NoResponse == [attempt |-> 0, statusCode |-> 0]

NewAttempt ==
  [outcome |-> "none",   \* callback mode: "none", "error" or "response"
   statusCode |-> 0,      \* of the response it gave, 0 before
   responses |-> 0, errors |-> 0, completes |-> 0, chunks |-> 0,
   aborts |-> 0, destroys |-> 0,
   piped |-> FALSE]       \* its cacheStream is piped into retryStream

RECURSIVE Pow(_, _)
Pow(b, e) == IF e = 0 THEN 1 ELSE b * Pow(b, e - 1)

\* getNextRetryDelay(retryNumber), rand being Math.floor(Math.random()*1000).
getNextRetryDelay(retryNumber, rand) ==
  (Pow(2, retryNumber) * 1000) + rand

\* ------------------------------------------------- the mutable state, as a value
State ==
  [numAttempts |-> numAttempts, timers |-> timers, delays |-> delays,
   attempts |-> attempts, requestStream |-> requestStream,
   cacheStream |-> cacheStream, events |-> events, ended |-> ended,
   calls |-> calls, evals |-> evals, threw |-> threw]

Becomes(S) ==
  /\ numAttempts' = S.numAttempts
  /\ timers' = S.timers
  /\ delays' = S.delays
  /\ attempts' = S.attempts
  /\ requestStream' = S.requestStream
  /\ cacheStream' = S.cacheStream
  /\ events' = S.events
  /\ ended' = S.ended
  /\ calls' = S.calls
  /\ evals' = S.evals
  /\ threw' = S.threw
  /\ UNCHANGED <<streamMode, given, opts, aborted>>

Event(type, attempt, arg, S) ==
  [type |-> type, attempt |-> attempt, arg |-> arg, made |-> Len(S.attempts)]

emit(S, type, attempt, arg) ==
  [S EXCEPT !.events = Append(@, Event(type, attempt, arg, S))]

\* callback(err, response, body)
callback(S, err, response) ==
  [S EXCEPT !.calls = Append(@, [err |-> err, attempt |-> response.attempt,
                                 statusCode |-> response.statusCode,
                                 made |-> Len(S.attempts)])]

\* ------------------------------------------------------------ resetStreams
\* Mutant of resetStreams: requestStream.abort() is missing.
resetStreams_noAbort(S) ==
  [S EXCEPT !.cacheStream = 0,
            !.attempts[S.requestStream].chunks =
               IF S.attempts[S.requestStream].piped THEN @ ELSE 0,
            !.attempts[S.requestStream].destroys = @ + 1]

\* cacheStream = null releases the cache and what it holds, unless it is
\* piped into retryStream, which keeps it.
resetStreams(S) ==
  [S EXCEPT !.cacheStream = 0,
            !.attempts[S.requestStream].chunks =
               IF S.attempts[S.requestStream].piped THEN @ ELSE 0,
            !.attempts[S.requestStream].aborts = @ + 1,
            !.attempts[S.requestStream].destroys = @ + 1]

\* ------------------------------------------------------------- makeRequest
makeRequestBody(S, stream) ==
  LET n == Len(S.attempts) + 1 IN
  [S EXCEPT !.numAttempts = @ + 1,
            !.attempts = Append(@, NewAttempt),
            !.cacheStream = IF stream THEN n ELSE @,
            !.requestStream = IF stream THEN n ELSE @]

\* Chunk k of attempt c is written to retryStream: it comes out as `data`
\* unless retryStream.end() was called before.
write(S, c, k) ==
  IF S.ended THEN S ELSE emit(S, "data", c, k)

\* What cacheStream c holds is written to retryStream, chunks k.. on.
RECURSIVE replay(_, _, _)
replay(S, c, k) ==
  IF k > S.attempts[c].chunks THEN S
  ELSE replay(write(S, c, k), c, k + 1)

\* streamForward(cacheStream).on('error', resetStreams).pipe(retryStream)
pipeCache(S) ==
  IF S.cacheStream = 0 THEN [S EXCEPT !.threw = TRUE]
  ELSE [S EXCEPT !.attempts[S.cacheStream].piped = TRUE]

\* -------------------------------------------------------------- onResponse
\* Mutant of onError: in stream mode the error is swallowed.
onError_silent(S, stream, err, response) ==
  IF stream THEN S ELSE callback(S, err, response)

\* if (err) { ... return; }: an error such as DNS resolution is surfaced.
\* err is the index of the attempt whose error it is.
onError(S, stream, err, response) ==
  IF stream
  THEN [emit(S, "error", err, 0) EXCEPT !.ended = TRUE]
  ELSE callback(S, err, response)

\* Mutant of mayRetry: the comparison is strict.
mayRetry_strict(S, o) ==
  S.numAttempts < o.retries

\* Mutant of mayRetry: the comparison allows attempts beyond both budgets.
mayRetry_lax(S, o) ==
  S.numAttempts <= o.retries + MAX_NO_RESPONSE_RETRIES + 1

\* numAttempts <= opts.retries
mayRetry(S, o) ==
  S.numAttempts <= o.retries

\* Mutant of scheduleRetry: the `return` after setTimeout is missing, so the
\* handler goes on to the delivery.
scheduleRetry_noReturn(S, stream, response, rand) ==
  LET S1 == IF stream THEN resetStreams(S) ELSE S
      S2 == [S1 EXCEPT !.timers = Append(@, getNextRetryDelay(S.numAttempts, rand)),
                       !.delays = Append(@, S.numAttempts)]
  IN IF stream THEN pipeCache(S2) ELSE callback(S2, 0, response)

\* Mutant of scheduleRetry: the retry number counts from 0.
scheduleRetry_fromZero(S, stream, response, rand) ==
  LET S1 == IF stream THEN resetStreams(S) ELSE S IN
  [S1 EXCEPT !.timers = Append(@, getNextRetryDelay(S.numAttempts - 1, rand)),
             !.delays = Append(@, S.numAttempts - 1)]

\* if (streamMode) resetStreams();
\* setTimeout(makeRequest, getNextRetryDelay(numAttempts)); return;
scheduleRetry(S, stream, response, rand) ==
  LET S1 == IF stream THEN resetStreams(S) ELSE S IN
  [S1 EXCEPT !.timers = Append(@, getNextRetryDelay(S.numAttempts, rand)),
             !.delays = Append(@, S.numAttempts)]

\* No more attempts need to be made, just continue on.
deliver(S, stream, response) ==
  IF stream THEN pipeCache(S) ELSE callback(S, 0, response)

\* Mutant of onResponse: the predicate is called before the budget is
\* tested.
onResponse_eager(S, stream, o, err, response, rand) ==
  IF err # 0 THEN onError(S, stream, err, response)
  ELSE
    LET S1 == [S EXCEPT !.evals = @ + 1] IN
    IF shouldRetryFn(o, response) /\ mayRetry(S, o)
    THEN scheduleRetry(S1, stream, response, rand)
    ELSE deliver(S1, stream, response)

\* err: 0 (null) or the index of the attempt whose error it is.  The
\* predicate is called only when numAttempts <= opts.retries (&&).
onResponse(S, stream, o, err, response, rand) ==
  IF err # 0 THEN onError(S, stream, err, response)
  ELSE IF mayRetry(S, o)
  THEN
    LET S1 == [S EXCEPT !.evals = @ + 1] IN
    IF shouldRetryFn(o, response)
    THEN scheduleRetry(S1, stream, response, rand)
    ELSE deliver(S1, stream, response)
  ELSE deliver(S, stream, response)

\* An event that requestStream i emitted reaches cacheStream i once the
\* listeners of requestStream i have returned, and from there retryStream
\* when cacheStream i is piped into it.
forward(S, i, type, arg) ==
  IF S.threw \/ ~S.attempts[i].piped THEN S
  ELSE emit(S, type, i, arg)

\* Chunk k that requestStream i wrote goes through cacheStream i into
\* retryStream when cacheStream i is piped into it.
relay(S, i, k) ==
  IF S.threw \/ ~S.attempts[i].piped THEN S
  ELSE write(S, i, k)

\* ------------------------------------------------------------------- Init
\* The state when retryRequest returns: the defaults are filled in and
\* makeRequest has run once.
Init ==
  /\ streamMode \in BOOLEAN
  /\ given \in GivenOpts
  /\ opts = resolveOpts(given)
  /\ numAttempts = 1
  /\ timers = <<>>
  /\ delays = <<>>
  /\ attempts = <<NewAttempt>>
  /\ requestStream = IF streamMode THEN 1 ELSE 0
  /\ cacheStream = IF streamMode THEN 1 ELSE 0
  /\ events = <<>>
  /\ ended = FALSE
  /\ calls = <<>>
  /\ evals = 0
  /\ threw = FALSE
  /\ aborted = FALSE

\* What retryRequest returns: retryStream = through() in stream mode,
\* nothing in callback mode; neither has a property abort.
returned ==
  IF streamMode THEN [value |-> "retryStream", abort |-> FALSE]
  ELSE [value |-> "undefined", abort |-> FALSE]

\* ---------------------------------------------------------------- actions
RemoveAt(s, k) ==
  [j \in 1..(Len(s) - 1) |-> IF j < k THEN s[j] ELSE s[j + 1]]

\* An armed retry timer fires: makeRequest().
makeRequest ==
  /\ ~threw
  /\ \E k \in DOMAIN timers :
       Becomes([makeRequestBody(State, streamMode)
                  EXCEPT !.timers = RemoveAt(@, k)])

\* Callback mode: the transport answers attempt i with an error.
requestCallbackError(i) ==
  /\ ~streamMode /\ ~threw
  /\ attempts[i].outcome = "none"
  /\ \E rand \in Jitters :
       Becomes(onResponse([State EXCEPT !.attempts[i].outcome = "error",
                                        !.attempts[i].errors = 1],
                          streamMode, opts, i, NoResponse, rand))

\* Callback mode: the transport answers attempt i with a response.
requestCallbackResponse(i, statusCode) ==
  /\ ~streamMode /\ ~threw
  /\ attempts[i].outcome = "none"
  /\ \E rand \in Jitters :
       Becomes(onResponse([State EXCEPT !.attempts[i].outcome = "response",
                                        !.attempts[i].responses = 1,
                                        !.attempts[i].statusCode = statusCode],
                          streamMode, opts, 0,
                          [attempt |-> i, statusCode |-> statusCode], rand))

\* Stream mode: requestStream i emits `response`.  When onResponse pipes
\* cacheStream i into retryStream, retryStream relays `response` and hands
\* on what cacheStream i held once the listeners have returned.
requestStreamResponse(i, statusCode) ==
  /\ streamMode /\ ~threw
  /\ attempts[i].responses = 0 /\ attempts[i].errors = 0
  /\ \E rand \in Jitters :
       LET S0 == [State EXCEPT !.attempts[i].responses = 1,
                               !.attempts[i].statusCode = statusCode]
           S1 == onResponse(S0, streamMode, opts, 0,
                            [attempt |-> i, statusCode |-> statusCode], rand)
           S2 == forward(S1, i, "response", statusCode)
       IN Becomes(IF S2.attempts[i].piped /\ ~S2.threw
                  THEN replay(S2, i, 1) ELSE S2)

\* Stream mode: requestStream i emits `error`.  Its listener is onResponse;
\* a cacheStream that was piped into retryStream has the listener
\* resetStreams.
requestStreamError(i) ==
  /\ streamMode /\ ~threw
  /\ attempts[i].errors = 0
  /\ \E rand \in Jitters :
       LET S0 == [State EXCEPT !.attempts[i].errors = 1]
           S1 == onResponse(S0, streamMode, opts, i, NoResponse, rand)
       IN Becomes(IF S1.attempts[i].piped THEN resetStreams(S1) ELSE S1)

\* Stream mode: requestStream i writes a chunk of the body to cacheStream i.
requestStreamData(i) ==
  /\ streamMode /\ ~threw
  /\ attempts[i].errors = 0
  /\ attempts[i].completes = 0 /\ attempts[i].aborts = 0
  /\ attempts[i].chunks < MaxChunks
  /\ LET S0 == [State EXCEPT !.attempts[i].chunks = @ + 1]
     IN Becomes(relay(S0, i, S0.attempts[i].chunks))

\* Stream mode: requestStream i emits `complete`.  It has no listener of
\* the library; on a stream whose cacheStream is not piped into retryStream
\* the event is lost and nothing changes.
requestStreamComplete(i) ==
  /\ streamMode /\ ~threw
  /\ attempts[i].responses > 0 /\ attempts[i].errors = 0
  /\ attempts[i].completes = 0
  /\ LET S0 == [State EXCEPT !.attempts[i].completes = 1]
     IN Becomes(IF attempts[i].piped THEN forward(S0, i, "complete", 0)
                ELSE State)

\* The caller calls abort() on what retryRequest returned.  There is no
\* such function: the call throws a TypeError in the caller and the request
\* goes on as before.
abort ==
  /\ ~aborted /\ ~returned.abort
  /\ aborted' = TRUE
  /\ UNCHANGED <<streamMode, given, opts, numAttempts, timers, delays,
                 attempts, requestStream, cacheStream, events, ended, calls,
                 evals, threw>>

Next ==
  \/ makeRequest
  \/ abort
  \/ \E i \in DOMAIN attempts : requestCallbackError(i)
  \/ \E i \in DOMAIN attempts, s \in StatusCodes : requestCallbackResponse(i, s)
  \/ \E i \in DOMAIN attempts, s \in StreamStatusCodes : requestStreamResponse(i, s)
  \/ \E i \in DOMAIN attempts : requestStreamError(i)
  \/ \E i \in DOMAIN attempts : requestStreamData(i)
  \/ \E i \in DOMAIN attempts : requestStreamComplete(i)

Spec == Init /\ [][Next]_vars

\* ------------------------------------------- a stream that responds twice
RECURSIVE numDuplicates(_, _)
numDuplicates(as, n) ==
  IF n = 0 THEN 0
  ELSE (IF as[n].responses > 1 THEN as[n].responses - 1 ELSE 0)
       + numDuplicates(as, n - 1)

\* Stream mode: requestStream i emits `response` once more.  onResponse is
\* attached with .on, so it runs again, with the variables as they are now:
\* requestStream and cacheStream may belong to another attempt, and
\* cacheStream may be null, in which case streamForward(cacheStream) throws.
requestStreamResponseAgain(i, statusCode) ==
  /\ streamMode /\ ~threw
  /\ attempts[i].responses >= 1 /\ attempts[i].errors = 0
  /\ numDuplicates(attempts, Len(attempts)) < MaxDuplicates
  /\ \E rand \in Jitters :
       LET S0 == [State EXCEPT !.attempts[i].responses = @ + 1,
                               !.attempts[i].statusCode = statusCode]
           response == [attempt |-> i, statusCode |-> statusCode]
           S1 == onResponse(S0, streamMode, opts, 0, response, rand)
           S2 == forward(S1, i, "response", statusCode)
           c == S0.cacheStream
           delivered == ~(mayRetry(S0, opts) /\ shouldRetryFn(opts, response))
       IN Becomes(IF delivered /\ c # 0 THEN replay(S2, c, 1) ELSE S2)

\* retryRequest(requestOpts, {retries: 1}) in stream mode.
InitDup ==
  /\ Init
  /\ streamMode
  /\ given = [NoOpts EXCEPT !.retries = {1}]

NextDup ==
  \/ makeRequest
  \/ \E i \in DOMAIN attempts, s \in StreamStatusCodes : requestStreamResponse(i, s)
  \/ \E i \in DOMAIN attempts, s \in StreamStatusCodes :
       requestStreamResponseAgain(i, s)
  \/ \E i \in DOMAIN attempts : requestStreamError(i)
  \/ \E i \in DOMAIN attempts : requestStreamData(i)
  \/ \E i \in DOMAIN attempts : requestStreamComplete(i)

\* The program in stream mode with a transport whose streams may emit
\* `response` twice.
SpecDup == InitDup /\ [][NextDup]_vars

\* The transport answers attempt i, which has no outcome yet.
Outcome(i) ==
  /\ i \in DOMAIN attempts
  /\ attempts[i].responses = 0 /\ attempts[i].errors = 0
  /\ \/ requestCallbackError(i)
     \/ \E s \in StatusCodes : requestCallbackResponse(i, s)
     \/ \E s \in StreamStatusCodes : requestStreamResponse(i, s)
     \/ requestStreamError(i)

\* At most opts.retries + 1 attempts are made.
MaxAttempts == (IF DEFAULTS_retries > MaxRetries THEN DEFAULTS_retries
                ELSE MaxRetries) + 1

\* Every armed timer fires (setTimeout) and the transport produces an
\* outcome for every attempt.
FairSpec ==
  /\ Spec
  /\ WF_vars(makeRequest)
  /\ \A i \in 1..MaxAttempts : WF_vars(Outcome(i))

\* ================================================================ claims
Answered(i) == attempts[i].responses > 0 \/ attempts[i].errors > 0

\* No attempt is waiting for its outcome and no retry timer is armed.
Quiet == timers = <<>> /\ \A i \in DOMAIN attempts : Answered(i)

EventsOf(type) == {k \in DOMAIN events : events[k].type = type}

\* Every outcome so far is a response that opts.shouldRetryFn flags.
AllRetryable ==
  \A i \in DOMAIN attempts :
    /\ attempts[i].errors = 0
    /\ attempts[i].responses > 0 =>
         shouldRetryFn(opts, [statusCode |-> attempts[i].statusCode])

\* C1: in callback mode the completion callback is never invoked a second
\* time, and it has been invoked once when the request has finished (every
\* attempt has its outcome and no retry is pending).
C1_CallbackExactlyOnce ==
  ~streamMode =>
    /\ Len(calls) <= 1
    /\ Quiet => Len(calls) = 1

C1_Witness ==
  ~streamMode /\ Quiet /\ Len(attempts) = 3 /\ Len(calls) = 1

\* C2: when every attempt answers with a response the retry predicate
\* flags, the transport is invoked opts.retries + 1 times, never more, and
\* what is then delivered is the response of that last attempt.
C2_RetriesPlusOneAttempts ==
  AllRetryable =>
    /\ Len(attempts) <= opts.retries + 1
    /\ \A k \in DOMAIN calls :
         /\ calls[k].err = 0
         /\ calls[k].attempt = opts.retries + 1
         /\ Len(attempts) = opts.retries + 1
    /\ \A k \in EventsOf("response") :
         /\ events[k].attempt = opts.retries + 1
         /\ Len(attempts) = opts.retries + 1
    /\ Quiet =>
         /\ Len(attempts) = opts.retries + 1
         /\ IF streamMode THEN EventsOf("response") # {} ELSE Len(calls) = 1

C2_Witness ==
  /\ AllRetryable /\ Quiet
  /\ given.retries = {} /\ Len(attempts) = 3
  /\ IF streamMode THEN EventsOf("response") # {} ELSE Len(calls) = 1

\* An error has been surfaced to the caller.
ErrorSurfaced ==
  \/ \E k \in DOMAIN calls : calls[k].err # 0
  \/ EventsOf("error") # {}

Flagged(statusCode) == shouldRetryFn(opts, [statusCode |-> statusCode])

\* A response that the retry predicate flags has been surfaced.
RejectedSurfaced ==
  \/ \E k \in DOMAIN calls : calls[k].err = 0 /\ Flagged(calls[k].statusCode)
  \/ \E k \in EventsOf("response") : Flagged(events[k].arg)

TransportFailures ==
  Cardinality({i \in DOMAIN attempts : attempts[i].errors > 0})

PolicyRejections ==
  Cardinality({i \in DOMAIN attempts :
                 attempts[i].responses > 0 /\ Flagged(attempts[i].statusCode)})

\* C3: a request whose transport fails every attempt without a response is
\* attempted noResponseRetries + 1 times (3 by default) before that error
\* is surfaced.
C3_TransportRetriesThenError ==
  (ErrorSurfaced /\ \A i \in DOMAIN attempts : attempts[i].responses = 0) =>
    Len(attempts) = MAX_NO_RESPONSE_RETRIES + 1

\* C4: the two budgets are charged independently: an error is surfaced
\* only once the transport failures exceed the transport budget, and a
\* rejected response only once the rejections exceed opts.retries.
C4_IndependentBudgets ==
  /\ ErrorSurfaced => TransportFailures > MAX_NO_RESPONSE_RETRIES
  /\ RejectedSurfaced => PolicyRejections > opts.retries

ClaimedRetry(statusCode) ==
  \/ statusCode < 200
  \/ statusCode = 429
  \/ statusCode >= 500 /\ statusCode <= 599

\* C5: with the default predicate and a retry budget left, the first
\* response is retried iff its status is below 200, 429 or 500..599; any
\* other status is committed on the first attempt.
C5_DefaultPredicateRanges ==
  (/\ opts.shouldRetryFn = "default" /\ opts.retries >= 1
   /\ attempts[1].responses > 0 /\ attempts[1].errors = 0) =>
    (delays # <<>> <=> ClaimedRetry(attempts[1].statusCode))

DefaultOptions == given.retries = {} /\ given.shouldRetryFn = "undefined"

AllAnswer404 ==
  \A i \in DOMAIN attempts :
    /\ attempts[i].errors = 0
    /\ attempts[i].responses > 0 => attempts[i].statusCode = 404

C7_LastAttemptOutcome ==
  numAttempts > opts.retries =>
    /\ \A k \in DOMAIN calls :
         IF calls[k].err # 0 THEN calls[k].err = calls[k].made
         ELSE Flagged(calls[k].statusCode) => calls[k].attempt = calls[k].made
    /\ \A k \in EventsOf("error") :
         events[k].made = Len(attempts) => events[k].attempt = events[k].made
    /\ \A k \in EventsOf("response") :
         Flagged(events[k].arg) => events[k].attempt = events[k].made

\* C8: on retryStream every `request` precedes `response`, `response`
\* precedes the body and `complete`, the body precedes `complete`, and an
\* `error` that no `response` preceded comes with no `response` and no
\* `complete` at all.
C8_EventOrder ==
  /\ \A k \in EventsOf("data") \cup EventsOf("complete") :
       \E j \in EventsOf("response") : j < k
  /\ \A k \in EventsOf("request") : \A j \in EventsOf("response") : k < j
  /\ \A k \in EventsOf("data") : \A j \in EventsOf("complete") : k < j
  /\ \A k \in EventsOf("error") :
       (\A j \in EventsOf("response") : k < j) =>
         EventsOf("response") \cup EventsOf("complete") = {}

\* C9: each of `response`, `error` and `complete` fires at most once on
\* retryStream, and the `response` and `complete` are those of the last
\* attempt.
C9_EventsAtMostOnce ==
  /\ \A type \in {"response", "error", "complete"} :
       Cardinality(EventsOf(type)) <= 1
  /\ \A k \in EventsOf("response") \cup EventsOf("complete") :
       events[k].attempt = Len(attempts)

\* C10: when `complete` fires for the Nth attempt, retryStream has emitted
\* N `request` notifications.
C10_RequestPerAttempt ==
  \A k \in EventsOf("complete") :
    Cardinality({j \in EventsOf("request") : j < k}) = events[k].attempt

Piped == {i \in DOMAIN attempts : attempts[i].piped}

DataEvents == SelectSeq(events, LAMBDA e : e.type = "data")

\* C11: the body delivered on retryStream is the body of the committed
\* attempt: every chunk delivered was written by the attempt whose
\* cacheStream is piped into retryStream, the chunks come in the order they
\* were written, none twice, and every chunk the committed attempt has
\* written has been delivered.
C11_BodyOfCommittedAttempt ==
  /\ \A k \in DOMAIN DataEvents :
       DataEvents[k].attempt \in Piped /\ DataEvents[k].arg = k
  /\ \A c \in Piped : Len(DataEvents) = attempts[c].chunks

RECURSIVE numAborts(_, _)
numAborts(as, n) ==
  IF n = 0 THEN 0 ELSE as[n].aborts + numAborts(as, n - 1)

\* C12: in stream mode every attempt that was discarded for a retry has had
\* abort() of its request stream called exactly once, from the moment the
\* retry is scheduled on, and whenever retryStream emits `response` or
\* `complete` of attempt N, N - 1 aborts have been made in total (none on
\* the committed attempt).
C12_AbortPerDiscardedAttempt ==
  /\ [](streamMode =>
         \A i \in DOMAIN attempts :
           (i < Len(attempts) \/ timers # <<>>) => attempts[i].aborts = 1)
  /\ [][\A k \in (Len(events) + 1)..Len(events') :
          events'[k].type \in {"response", "complete"} =>
            numAborts(attempts', Len(attempts')) = events'[k].attempt - 1]_vars

C12_Witness ==
  /\ streamMode /\ given.retries = {} /\ Len(attempts) = 3
  /\ EventsOf("complete") # {}
  /\ numAborts(attempts, 3) = 2

\* C13: when the request stream of the committed attempt raises an error,
\* retryStream emits `error` with that error in the same step, and no
\* attempt and no retry timer is started, then or later.
C13_ErrorAfterCommit ==
  /\ [](\A i \in Piped :
         attempts[i].errors > 0 => timers = <<>> /\ i = Len(attempts))
  /\ [][\A i \in Piped :
          (attempts[i].errors = 0 /\ attempts'[i].errors = 1) =>
            /\ Len(events') = Len(events) + 1
            /\ events'[Len(events')].type = "error"
            /\ events'[Len(events')].attempt = i
            /\ timers' = timers /\ attempts'[i].piped
            /\ Len(attempts') = Len(attempts)]_vars

C13_Witness ==
  \E i \in Piped :
    /\ attempts[i].errors = 1
    /\ \E j, k \in DOMAIN events :
         /\ j < k
         /\ events[j].type = "response" /\ events[j].attempt = i
         /\ events[k].type = "error" /\ events[k].attempt = i

InFlight(i) == ~Answered(i)

\* C14: what retryRequest returns has an abort operation in both call
\* shapes, and calling it while an attempt is in flight calls abort() of
\* that attempt's request.
C14_AbortOperation ==
  /\ [](returned.abort)
  /\ [][(~aborted /\ aborted') =>
          \A i \in DOMAIN attempts :
            InFlight(i) => attempts'[i].aborts > attempts[i].aborts]_vars

\* C15: once abort() has been called no attempt is started: an armed retry
\* timer is cancelled by the call and never runs makeRequest.
C15_NoAttemptAfterAbort ==
  /\ [][(~aborted /\ aborted') => timers' = <<>>]_vars
  /\ [][aborted => Len(attempts') = Len(attempts)]_vars

\* C16: an outcome that arrives after abort() is ignored: the callback is
\* not invoked, retryStream emits no `response`, `complete` or `error`,
\* and no retry is scheduled.
C16_OutcomeAfterAbortIgnored ==
  [][aborted =>
       /\ calls' = calls
       /\ \A k \in (Len(events) + 1)..Len(events') :
            events'[k].type \notin {"response", "complete", "error"}
       /\ Len(delays') = Len(delays)]_vars

\* C17: in stream mode, after abort() retryStream ends, and it emits no
\* `response` and no `complete` from the call of abort() on.
C17_AbortEndsStream ==
  /\ (streamMode /\ aborted) ~> ended
  /\ [][(streamMode /\ aborted') =>
          \A k \in (Len(events) + 1)..Len(events') :
            events'[k].type \notin {"response", "complete"}]_vars

\* The outcomes presented to the caller: the invocations of callback, the
\* `response` events (a committed stream), and the `error` events that did
\* not follow the `response` of their own attempt.
Outcomes ==
  {<<"callback", k>> : k \in DOMAIN calls}
  \cup {<<"response", k>> : k \in EventsOf("response")}
  \cup {<<"error", k>> : k \in
          {k \in EventsOf("error") :
             ~\E j \in EventsOf("response") :
                j < k /\ events[j].attempt = events[k].attempt}}

\* The request has reached a terminal state: nothing is pending.
Terminal == Quiet /\ Outcomes # {}

\* The request terminates, whatever the predicate and the transport do.
Terminates == <>Terminal

\* C18: when every attempt gets an outcome and every armed timer fires, the
\* request reaches a terminal state, and it presents one outcome to the
\* caller, never a second one.
C18_OneOutcomeEventually ==
  /\ <>Terminal
  /\ [](Cardinality(Outcomes) <= 1)

\* C19: a field written with the value undefined is resolved like an absent
\* one, and a request with noResponseRetries: undefined makes the default 3
\* attempts on a transport that fails every time before the error is
\* surfaced.
C19_UndefinedIsAbsent ==
  /\ opts = resolveOpts([given EXCEPT !.undefinedKeys = {}])
  /\ ("noResponseRetries" \in given.undefinedKeys /\ ErrorSurfaced
      /\ \A i \in DOMAIN attempts : attempts[i].responses = 0) =>
       Len(attempts) = MAX_NO_RESPONSE_RETRIES + 1

\* The multiplier base the caller configured, 2 by default.
Multiplier ==
  IF given.retryDelayMultiplier = {} THEN 2
  ELSE CHOOSE m \in given.retryDelayMultiplier : TRUE

\* C20: the delay of every retry timer armed for attempt number n lies in
\* [m^n * 1000, m^n * 1000 + 1000), m being the configured multiplier base
\* (2 by default), for every jitter.
C20_DelayBounds ==
  [][Len(delays') > Len(delays) =>
       LET n == delays'[Len(delays')]
           d == timers'[Len(timers')]
       IN /\ n >= 1
          /\ d >= Pow(Multiplier, n) * 1000
          /\ d < Pow(Multiplier, n) * 1000 + 1000]_vars

\* The delay of the timer armed in this step satisfies P(n, d), n being
\* its retry number and d its delay.
Armed(P(_, _)) ==
  Len(delays') > Len(delays) =>
    P(delays'[Len(delays')], timers'[Len(timers')])

TheOne(S) == CHOOSE x \in S : TRUE

C21_Capped(n, d) ==
  given.maxRetryDelay # {} =>
    LET ceiling == TheOne(given.maxRetryDelay) * 1000 IN
    /\ d <= ceiling
    /\ Pow(2, n) * 1000 >= ceiling => d = ceiling

\* C21: the delay of a retry timer never exceeds maxRetryDelay * 1000 ms,
\* whatever the retry number and the jitter, and it is exactly that ceiling
\* when the exponential value reaches it.
C21_MaxRetryDelay == [][Armed(C21_Capped)]_vars

\* Time that has passed since the first attempt when retry timer k is
\* armed, at least: the delays of the timers before it have run out.
RECURSIVE elapsedAtLeast(_)
elapsedAtLeast(k) ==
  IF k <= 1 THEN 0 ELSE Pow(2, delays[k - 1]) * 1000 + elapsedAtLeast(k - 1)

C22_InTime(n, d) ==
  given.totalTimeout # {} =>
    elapsedAtLeast(Len(delays) + 1) + d <= TheOne(given.totalTimeout) * 1000

\* C22: the delay of a retry timer never pushes the retry past the total
\* deadline: time elapsed since the first attempt plus the delay is at most
\* totalTimeout * 1000 ms.
C22_TotalTimeout == [][Armed(C22_InTime)]_vars

\* currentRetryAttempt as the caller gave it, 0 when absent.
Offset ==
  IF given.currentRetryAttempt = {} THEN 0
  ELSE TheOne(given.currentRetryAttempt)

\* C23: with currentRetryAttempt > 0 a delay timer computed from it is
\* armed before attempt 1 starts; with 0 or none, attempt 1 has started with
\* no timer when retryRequest returns, and timers are armed only after
\* attempts.
C23_InitialDelay ==
  IF Offset > 0
  THEN attempts # <<>> => (delays # <<>> /\ delays[1] = Offset)
  ELSE attempts # <<>> /\ Len(delays) <= Len(attempts)

\* C24: currentRetryAttempt counts as retries already used: with
\* currentRetryAttempt = 1, default retries and a transport whose every
\* response is flagged, the callback runs after one call of the transport.
C24_OffsetUsesBudget ==
  (/\ ~streamMode /\ Offset = 1 /\ given.retries = {}
   /\ AllRetryable /\ calls # <<>>) =>
    Len(attempts) = 1

\* The outcome of attempt i has been decided: in callback mode it was
\* handed to onResponse; in stream mode the attempt was discarded for a
\* retry (aborted), committed (piped into retryStream), or it failed.
Decided(i) ==
  IF streamMode
  THEN attempts[i].aborts > 0 \/ attempts[i].piped \/ attempts[i].errors > 0
  ELSE attempts[i].outcome # "none"

\* C25: at most one attempt is in flight: when an attempt starts, every
\* attempt before it has been decided, also when a request stream emits a
\* second `response` or an `error` after its `response`.
C25_OneAttemptInFlight ==
  /\ [](Cardinality({i \in DOMAIN attempts : ~Decided(i)}) <= 1)
  /\ [][Len(attempts') > Len(attempts) =>
          \A i \in DOMAIN attempts : Decided(i)]_vars

\* The session is pending: no outcome has been presented to the caller.
Pending == calls = <<>> /\ EventsOf("response") = {} /\ EventsOf("error") = {}

\* C26: in stream mode the session holds a handle to a current attempt
\* (requestStream) exactly while it is pending with an attempt in flight:
\* there is none while a retry timer is armed, and none after commit or
\* discard.
C26_HandleIffInFlight ==
  streamMode =>
    ((requestStream # 0) <=>
       (Pending /\ timers = <<>> /\ ~Decided(Len(attempts))))

\* Attempt i was discarded for a retry.
Discarded(i) == attempts[i].aborts > 0 /\ ~attempts[i].piped

\* C27: in stream mode an error raised by an attempt that was discarded
\* for a retry is suppressed: retryStream emits nothing and is not ended,
\* and the timers and attempts stay as they are.
C27_DiscardedErrorSuppressed ==
  [][\A i \in DOMAIN attempts :
       (Discarded(i) /\ attempts[i].errors = 0 /\ attempts'[i].errors = 1) =>
         /\ events' = events /\ ended' = ended
         /\ timers' = timers /\ Len(attempts') = Len(attempts)]_vars

\* retryOnError as the caller gave it, FALSE (the default) when absent.
RetryOnError ==
  IF given.retryOnError = {} THEN FALSE ELSE TheOne(given.retryOnError)

\* Attempt i has failed at transport level before any response.
TransportFailure(i) == attempts[i].errors > 0 /\ attempts[i].responses = 0

\* C28: with retryOnError false a transport failure is surfaced at once and
\* no retry is scheduled for it; with retryOnError true a transport failure
\* is surfaced only once the retry budget is exhausted.
C28_RetryOnError ==
  \A i \in DOMAIN attempts :
    TransportFailure(i) =>
      IF RetryOnError
      THEN ErrorSurfaced => numAttempts > opts.retries
      ELSE ErrorSurfaced /\ Len(attempts) = i /\ timers = <<>>

Responded == {i \in DOMAIN attempts : attempts[i].responses > 0}

\* C30: opts.shouldRetryFn is called at most once per response and never
\* once the retries are used up: a predicate that returns false for the
\* first response has been called once and one attempt was made; with an
\* always-true predicate it is called opts.retries times over
\* opts.retries + 1 attempts.
C30_PredicateEvaluations ==
  /\ evals <= Cardinality(Responded) /\ evals <= opts.retries
  /\ (opts.shouldRetryFn = "never" /\ opts.retries >= 1 /\ 1 \in Responded) =>
       evals = 1 /\ Len(attempts) = 1
  /\ (opts.shouldRetryFn = "always" /\ Quiet /\ AllRetryable) =>
       evals = opts.retries /\ Len(attempts) = opts.retries + 1

C30_Witness ==
  /\ opts.shouldRetryFn = "always" /\ given.retries = {1}
  /\ Quiet /\ AllRetryable
  /\ evals = 1 /\ Len(attempts) = 2 /\ Len(calls) = 1

\* No attempt is waiting for its outcome.
NoneInFlight == \A i \in DOMAIN attempts : ~InFlight(i)

\* The fields of the request that a call of abort() could change.
session ==
  <<numAttempts, timers, delays, attempts, requestStream, cacheStream,
    events, ended, calls>>

\* C31: abort() can be called when no attempt is in flight (a retry timer is
\* armed, or the request is terminal): the call returns, calls abort() of no
\* underlying request, and leaves the request as it was.
C31_AbortNoOp ==
  [][(~aborted /\ aborted' /\ NoneInFlight) =>
       /\ returned.abort
       /\ \A i \in DOMAIN attempts : attempts'[i].aborts = attempts[i].aborts
       /\ session' = session]_vars

\* C32: once the request has presented its outcome (the callback was
\* invoked, or retryStream emitted `error` or a committed `response`)
\* without abort(), no retry timer is armed and no attempt is started.
C32_NothingAfterOutcome ==
  /\ []((~aborted /\ Outcomes # {}) => timers = <<>>)
  /\ [][(~aborted /\ Outcomes # {}) => Len(attempts') = Len(attempts)]_vars

\* C33: the attempts started so far, which numAttempts counts, never exceed
\* 1 + opts.retries + the transport budget, whatever mix of transport
\* failures and retryable responses the attempts get.
C33_AttemptsBounded ==
  /\ numAttempts = Len(attempts)
  /\ Len(attempts) <= 1 + opts.retries + MAX_NO_RESPONSE_RETRIES

C33_Witness ==
  /\ opts.retries = 2 /\ Len(attempts) = 3
  /\ attempts[1].responses > 0 /\ attempts[2].responses > 0
  /\ TransportFailure(3) /\ Quiet

====
